---- MODULE Spec2Model ----
(***************************************************************************)
(* BlackRoad Energy Monitor (src/src/energy_monitor.py): the sqlite store  *)
(* (tables devices, readings, alerts) and the operations add_device,       *)
(* add_reading and get_daily_usage of class EnergyMonitor.                 *)
(*                                                                         *)
(* Representation.                                                         *)
(*  - watts are whole numbers of watts (the REAL column holds them         *)
(*    exactly); statistics.mean and statistics.stdev work on exact         *)
(*    fractions, so the model computes with exact integer arithmetic:      *)
(*    for a history of n values with sum S and sum of squares Q,           *)
(*      mean = S/n,  variance = (n*Q - S*S) / (n*(n-1)),                   *)
(*      |w - mean| > 2*stdev  <=>  (n-1)*(n*w - S)^2 > 4*n*(n*Q - S*S).    *)
(*    These products pass 2^31, so they are computed on naturals held as   *)
(*    little-endian sequences of base-10000 digits (Big...).               *)
(*  - round(x, k) is round-half-even on the exact value; stored decimal    *)
(*    columns are held as scaled integers (hundredths for 2 places,        *)
(*    ten-thousandths for 4 places).                                       *)
(*  - an ISO-8601 timestamp "YYYY-MM-DDTHH:MM:SS.ffffff" is the pair       *)
(*    <<date, time>>; string order on timestamps is lexicographic order    *)
(*    of the pair, and  timestamp LIKE 'date%'  is  timestamp[1] = date.   *)
(*    Optional[str] None (and the equally falsy "") is <<>>.               *)
(*    Python compares and rounds the nearest doubles; where the exact      *)
(*    value sits on a tie the double may fall on either side of it, which  *)
(*    the model does not follow.                                           *)
(*  - the alert's message column is a rendering of watts, baseline and     *)
(*    deviation and is left out; printed lines are recorded in `last`.     *)
(*  - utcnow() is a tick counter; every call takes one tick.               *)
(*  - Spec starts from the empty store or from the store that n calls      *)
(*    add_reading("a1", 100 W) leave behind (Seeds, computed by Replay     *)
(*    with add_reading itself); UsageSpec starts from the empty store.     *)
(***************************************************************************)
EXTENDS Integers, Sequences, FiniteSets, TLC

VARIABLES
    devices,    \* table devices: device_id -> row
    readings,   \* table readings: sequence of rows, index = AUTOINCREMENT id
    alerts,     \* table alerts: sequence of rows, index = AUTOINCREMENT id
    journal,    \* the INSERTs into readings and alerts, in execution order
    now,        \* datetime.utcnow(), in ticks
    calls,      \* number of calls made since Init
    last        \* what the last call did and returned

vars == <<devices, readings, alerts, journal, now, calls, last>>

-----------------------------------------------------------------------------
(* Program constants *)

HISTORY_LIMIT == 100
MIN_HISTORY == 10
SIGMA_FACTOR == 2
HOURS == 24
COST_PER_KWH_CENTS == 12

(* Bounds of the model *)

MaxCalls == 2
MaxUsageCalls == 4
TicksPerDay == 2

NoneStr == "<None>"
NoTimestamp == <<>>

-----------------------------------------------------------------------------
(* Naturals as little-endian sequences of base-10000 digits, <<>> = 0 *)

RECURSIVE BigOf(_)
BigOf(n) == IF n = 0 THEN <<>> ELSE <<n % 10000>> \o BigOf(n \div 10000)

RECURSIVE BigTrim(_)
BigTrim(a) ==
    IF a = <<>> THEN <<>>
    ELSE IF a[Len(a)] = 0 THEN BigTrim(SubSeq(a, 1, Len(a) - 1)) ELSE a

BigDigit(a, i) == IF i <= Len(a) THEN a[i] ELSE 0

RECURSIVE BigAddFrom(_, _, _, _)
BigAddFrom(a, b, i, carry) ==
    IF i > Len(a) /\ i > Len(b)
    THEN (IF carry = 0 THEN <<>> ELSE <<carry>>)
    ELSE LET s == BigDigit(a, i) + BigDigit(b, i) + carry
         IN  <<s % 10000>> \o BigAddFrom(a, b, i + 1, s \div 10000)

BigAdd(a, b) == BigAddFrom(a, b, 1, 0)

\* a - b, for a >= b
RECURSIVE BigSubFrom(_, _, _, _)
BigSubFrom(a, b, i, borrow) ==
    IF i > Len(a) THEN <<>>
    ELSE LET s == BigDigit(a, i) - BigDigit(b, i) - borrow
         IN  IF s < 0 THEN <<s + 10000>> \o BigSubFrom(a, b, i + 1, 1)
                      ELSE <<s>> \o BigSubFrom(a, b, i + 1, 0)

BigSub(a, b) == BigTrim(BigSubFrom(a, b, 1, 0))

\* a * k, for 0 <= k < 100000
RECURSIVE BigScaleFrom(_, _, _, _)
BigScaleFrom(a, k, i, carry) ==
    IF i > Len(a) THEN BigOf(carry)
    ELSE LET s == a[i] * k + carry
         IN  <<s % 10000>> \o BigScaleFrom(a, k, i + 1, s \div 10000)

BigScale(a, k) == BigTrim(BigScaleFrom(a, k, 1, 0))

RECURSIVE BigMulFrom(_, _, _)
BigMulFrom(a, b, i) ==
    IF i > Len(b) THEN <<>>
    ELSE BigAdd(BigScale(a, b[i]), <<0>> \o BigMulFrom(a, b, i + 1))

BigMul(a, b) == BigTrim(BigMulFrom(a, b, 1))

RECURSIVE BigLessFrom(_, _, _)
BigLessFrom(a, b, i) ==
    IF i = 0 THEN FALSE
    ELSE IF a[i] # b[i] THEN a[i] < b[i] ELSE BigLessFrom(a, b, i - 1)

\* a < b, for trimmed a and b
BigLess(a, b) ==
    IF Len(a) # Len(b) THEN Len(a) < Len(b) ELSE BigLessFrom(a, b, Len(a))

Abs(x) == IF x < 0 THEN -x ELSE x

\* round(p / q) to the nearest integer, ties to even, for q > 0
RoundDiv(p, q) ==
    LET f == p \div q
        r == p % q
    IN  IF 2 * r < q THEN f
        ELSE IF 2 * r > q THEN f + 1
        ELSE IF f % 2 = 0 THEN f ELSE f + 1

\* the digits-th step of the long division of r / q (0 <= r < q): the pair
\* <<first `digits` decimal digits of r/q as a number, the remainder left>>
RECURSIVE LongDiv(_, _, _)
LongDiv(r, q, digits) ==
    IF digits = 0 THEN <<0, r>>
    ELSE LET d == (r * 10) \div q
             rest == LongDiv((r * 10) % q, q, digits - 1)
             pow == IF digits = 1 THEN 1 ELSE IF digits = 2 THEN 10
                    ELSE IF digits = 3 THEN 100 ELSE 1000
         IN  <<d * pow + rest[1], rest[2]>>

\* round((p / q) * 100, 2) in hundredths, for p >= 0 and q > 0
RoundPct(p, q) ==
    LET whole == p \div q
        frac == LongDiv(p % q, q, 4)
        f == whole * 10000 + frac[1]
        r == frac[2]
    IN  IF 2 * r < q THEN f
        ELSE IF 2 * r > q THEN f + 1
        ELSE IF f % 2 = 0 THEN f ELSE f + 1

-----------------------------------------------------------------------------
(* Time *)

\* datetime.isoformat() of the clock value t
isoformat(t) == <<t \div TicksPerDay, t % TicksPerDay>>

\* datetime.strftime("%Y-%m-%d") of the clock value t
strftime(t) == t \div TicksPerDay

\* string order of two timestamps: a > b
TsGreater(a, b) == a[1] > b[1] \/ (a[1] = b[1] /\ a[2] > b[2])

-----------------------------------------------------------------------------
(* The store *)

EmptyStore == [devices |-> <<>>, readings |-> <<>>, alerts |-> <<>>, journal |-> <<>>]

EnergyReading(device_id, device_name, watts, timestamp, location) ==
    [device_id |-> device_id, device_name |-> device_name, watts |-> watts,
     timestamp |-> timestamp, location |-> location]

\* variant: INSERT OR REPLACE, the second registration overwrites the first
InsertDeviceReplacing(devs, device_id, row) ==
    [table |-> [d \in DOMAIN devs \cup {device_id} |->
                    IF d = device_id THEN row ELSE devs[d]],
     error |-> "none"]

\* INSERT INTO devices ...: the table after the statement, and the error raised
\* (device_id is the PRIMARY KEY)
InsertDevice(devs, device_id, row) ==
    IF device_id \in DOMAIN devs
    THEN [table |-> devs, error |-> "IntegrityError"]
    ELSE [table |-> devs @@ (device_id :> row), error |-> "none"]

\* add_device: the INSERT, with sqlite3.IntegrityError caught and reported
add_device(st, device_id, device_name, location, threshold_watts, clock) ==
    LET row == [device_name |-> device_name, location |-> location,
                threshold_watts |-> threshold_watts,
                created_at |-> isoformat(clock)]
        ins == InsertDevice(st.devices, device_id, row)
    IN  [st  |-> [st EXCEPT !.devices = ins.table],
         out |-> [op |-> "add_device", device_id |-> device_id, row |-> row,
                  before |-> st.devices,
                  printed |-> IF ins.error = "IntegrityError"
                              THEN "already exists" ELSE "Added device",
                  raised |-> IF ins.error \in {"none", "IntegrityError"}
                             THEN "none" ELSE ins.error]]

\* reading.timestamp = reading.timestamp or datetime.utcnow().isoformat()
Timestamped(reading, clock) ==
    IF reading.timestamp = NoTimestamp
    THEN [reading EXCEPT !.timestamp = isoformat(clock)]
    ELSE reading

\* INSERT INTO readings ...: the new row gets the next id
InsertReading(rs, reading) ==
    Append(rs, [device_id |-> reading.device_id,
                device_name |-> reading.device_name,
                watts |-> reading.watts, location |-> reading.location,
                timestamp |-> reading.timestamp])

DeviceRows(rs, device_id) == {i \in 1..Len(rs) : rs[i].device_id = device_id}

\* the rows of `rows` that no other row of it is older than
Oldest(rs, rows) ==
    {i \in rows : \A j \in rows : ~TsGreater(rs[i].timestamp, rs[j].timestamp)}

\* every way of dropping the `excess` oldest rows (rows of equal timestamp
\* come out of ORDER BY in an order SQL leaves open)
RECURSIVE DropOldest(_, _, _)
DropOldest(rs, rows, excess) ==
    IF excess = 0 THEN {rows}
    ELSE UNION {DropOldest(rs, rows \ {m}, excess - 1) : m \in Oldest(rs, rows)}

\* the results SELECT ... WHERE device_id = ? ORDER BY timestamp DESC LIMIT 100
\* may give over table rs, each as the set of the ids of the rows fetched
LatestRows(rs, device_id) ==
    LET rows == DeviceRows(rs, device_id)
    IN  IF Cardinality(rows) <= HISTORY_LIMIT THEN {rows}
        ELSE DropOldest(rs, rows, Cardinality(rows) - HISTORY_LIMIT)

\* variant: the query run before the INSERT of the new row (the last row of rs)
fetch_history_excluding_new(rs, device_id) ==
    LatestRows(SubSeq(rs, 1, Len(rs) - 1), device_id)

\* add_reading's history query: it runs after the INSERT, on the table that
\* holds the new row
fetch_history(rs, device_id) == LatestRows(rs, device_id)

\* sum of the watts of the rows lo..hi of rs that are in H (the range is
\* halved to keep the evaluation shallow)
RECURSIVE SumWattsIn(_, _, _, _)
SumWattsIn(rs, H, lo, hi) ==
    IF lo > hi THEN 0
    ELSE IF lo = hi THEN (IF lo \in H THEN rs[lo].watts ELSE 0)
    ELSE LET mid == (lo + hi) \div 2
         IN  SumWattsIn(rs, H, lo, mid) + SumWattsIn(rs, H, mid + 1, hi)

SumWatts(rs, H) == SumWattsIn(rs, H, 1, Len(rs))

\* sum of the squares of the same watts
RECURSIVE SumSquaresIn(_, _, _, _)
SumSquaresIn(rs, H, lo, hi) ==
    IF lo > hi THEN <<>>
    ELSE IF lo = hi
         THEN (IF lo \in H THEN BigOf(rs[lo].watts * rs[lo].watts) ELSE <<>>)
    ELSE LET mid == (lo + hi) \div 2
         IN  BigAdd(SumSquaresIn(rs, H, lo, mid), SumSquaresIn(rs, H, mid + 1, hi))

SumSquares(rs, H) == SumSquaresIn(rs, H, 1, Len(rs))

\* n * (n - 1) * variance of n values with sum S and sum of squares Q
ScaledVariance(n, S, Q) ==
    BigSub(BigScale(Q, n), BigMul(BigOf(Abs(S)), BigOf(Abs(S))))

\* variant: watts - baseline > 2 * std, without abs()
ExceedsSigmaNoAbs(n, S, Q, watts) ==
    LET V == ScaledVariance(n, S, Q)
        D == BigOf(Abs(n * watts - S))
    IN  /\ V # <<>>
        /\ n * watts - S > 0
        /\ BigLess(BigScale(V, SIGMA_FACTOR * SIGMA_FACTOR * n),
                   BigScale(BigMul(D, D), n - 1))

\* std > 0 and abs(watts - baseline) > 2 * std
ExceedsSigma(n, S, Q, watts) ==
    LET V == ScaledVariance(n, S, Q)
        D == BigOf(Abs(n * watts - S))
    IN  /\ V # <<>>
        /\ BigLess(BigScale(V, SIGMA_FACTOR * SIGMA_FACTOR * n),
                   BigScale(BigMul(D, D), n - 1))

\* variant: the percentage taken against the baseline already rounded to 2 places
DeviationFromRoundedBaseline(n, S, watts) ==
    LET b == RoundDiv(S * 100, n)
    IN  IF S > 0
        THEN (IF watts * 100 - b >= 0 THEN 1 ELSE -1) * RoundPct(Abs(watts * 100 - b), b)
        ELSE 0

\* variant: only a baseline of 0 is guarded (baseline != 0 instead of > 0)
DeviationGuardsZeroOnly(n, S, watts) ==
    IF S # 0
    THEN (IF (n * watts - S >= 0) = (S > 0) THEN 1 ELSE -1)
             * RoundPct(Abs(n * watts - S), Abs(S))
    ELSE 0

\* ((watts - baseline) / baseline) * 100 if baseline > 0 else 0, then
\* round(deviation, 2), in hundredths
Deviation(n, S, watts) ==
    IF S > 0
    THEN (IF n * watts - S >= 0 THEN 1 ELSE -1) * RoundPct(Abs(n * watts - S), S)
    ELSE 0

\* variant: the check runs from 9 entries on
MinHistoryOffByOne == MIN_HISTORY - 1

\* the least len(history) the anomaly check runs on
MinHistory == MIN_HISTORY

\* variant: the device_name bound to the device_id column
AlertRowDeviceFromName(reading, alert_type, baseline, deviation, clock) ==
    [device_id |-> reading.device_name, device_name |-> reading.device_name,
     alert_type |-> alert_type, watts |-> reading.watts,
     baseline_watts |-> baseline, deviation_pct |-> deviation,
     created_at |-> isoformat(clock)]

\* the row INSERT INTO alerts writes
AlertRow(reading, alert_type, baseline, deviation, clock) ==
    [device_id |-> reading.device_id, device_name |-> reading.device_name,
     alert_type |-> alert_type, watts |-> reading.watts,
     baseline_watts |-> baseline, deviation_pct |-> deviation,
     created_at |-> isoformat(clock)]

\* the anomaly check: the rows it inserts into alerts, for the history H
\* (ids of rows of rs) fetched for the reading
AnomalyAlerts(reading, rs, H, clock) ==
    LET n == Cardinality(H)
        S == SumWatts(rs, H)
        Q == SumSquares(rs, H)
    IN  IF n >= MinHistory /\ ExceedsSigma(n, S, Q, reading.watts)
        THEN <<AlertRow(reading, "anomaly", RoundDiv(S * 100, n),
                        Deviation(n, S, reading.watts), clock)>>
        ELSE <<>>

\* the threshold check's condition
ThresholdExceeded(devs, reading) ==
    /\ reading.device_id \in DOMAIN devs
    /\ devs[reading.device_id].threshold_watts > 0
    /\ reading.watts > devs[reading.device_id].threshold_watts

\* variant: the threshold check writes an alert of type 'threshold'
ThresholdAlertsPersisted(devs, reading, clock) ==
    IF ThresholdExceeded(devs, reading)
    THEN <<AlertRow(reading, "threshold", 0, 0, clock)>>
    ELSE <<>>

\* the threshold check: the rows it inserts into alerts (it only prints)
ThresholdAlerts(devs, reading, clock) == <<>>

\* add_reading with the history query's result H
add_reading(st, reading0, H, clock) ==
    LET reading == Timestamped(reading0, clock)
        rs == InsertReading(st.readings, reading)
        id == Len(rs)
        anomaly == AnomalyAlerts(reading, rs, H, clock)
        new_alerts == anomaly \o ThresholdAlerts(st.devices, reading, clock)
        all_alerts == st.alerts \o new_alerts
    IN  [st  |-> [st EXCEPT
                    !.readings = rs,
                    !.alerts = all_alerts,
                    !.journal = st.journal \o <<<<"readings", id>>>> \o
                                [k \in 1..Len(new_alerts) |->
                                    <<"alerts", Len(st.alerts) + k>>]],
         out |-> [op |-> "add_reading", id |-> id, reading |-> reading,
                  history |-> H,
                  alerts_before |-> Len(st.alerts),
                  printed_anomaly |-> anomaly # <<>>,
                  printed_threshold |-> ThresholdExceeded(st.devices, reading),
                  raised |-> "none"]]

\* one call add_reading(reading) at clock value `clock`, for a table on which
\* the history query has one result
add_reading_once(st, reading, clock) ==
    LET rs == InsertReading(st.readings, Timestamped(reading, clock))
        H == CHOOSE h \in fetch_history(rs, reading.device_id) : TRUE
    IN  add_reading(st, reading, H, clock).st

\* the store after the calls add_reading(script[lo]), ..., add_reading(script[hi]),
\* one tick apart, the first at clock value lo - 1, from the empty store (the
\* range is halved, and the first half's store looked at before the second
\* half starts, to keep the evaluation shallow)
RECURSIVE Replay(_, _, _, _)
Replay(st, script, lo, hi) ==
    IF lo > hi THEN st
    ELSE IF lo = hi THEN add_reading_once(st, script[lo], lo - 1)
    ELSE LET mid == (lo + hi) \div 2
             half == Replay(st, script, lo, mid)
         IN  IF Len(half.readings) = mid
             THEN Replay(half, script, mid + 1, hi)
             ELSE half

-----------------------------------------------------------------------------
(* get_daily_usage *)

\* Python truth value of an Optional[str] argument: None and "" are false
Truthy(s) == s \notin {NoneStr, ""}

\* variant: GROUP BY device_id
GroupKeyDeviceOnly(row) == <<row.device_id>>

\* GROUP BY device_id, device_name, location
GroupKey(row) == <<row.device_id, row.device_name, row.location>>

\* WHERE timestamp LIKE 'date%' [AND device_id = ?]: the ids of the rows
Selected(rs, device_id, date) ==
    {i \in 1..Len(rs) :
        /\ rs[i].timestamp[1] = date
        /\ (Truthy(device_id) => rs[i].device_id = device_id)}

\* the distinct group keys of the selected rows among rows 1..i, in the order
\* of their first row (SQL leaves the order of the groups open)
RECURSIVE GroupKeys(_, _, _)
GroupKeys(rs, sel, i) ==
    IF i = 0 THEN <<>>
    ELSE LET before == GroupKeys(rs, sel, i - 1)
         IN  IF i \in sel /\ \A k \in 1..Len(before) : before[k] # GroupKey(rs[i])
             THEN Append(before, GroupKey(rs[i]))
             ELSE before

MaxOf(S) == CHOOSE x \in S : \A y \in S : y <= x
MinOf(S) == CHOOSE x \in S : \A y \in S : x <= y
MaxTs(T) == CHOOSE t \in T : \A u \in T : ~TsGreater(u, t)

\* variant: kwh taken from avg_watts already rounded to 2 places
DailyKwhFromRoundedAvg(S, n) == RoundDiv(RoundDiv(S * 100, n) * HOURS, 10)

\* kwh = (avg_watts * hours) / 1000.0 on the unrounded AVG(watts) = S / n,
\* then round(kwh, 4), in ten-thousandths
DailyKwh(S, n) == RoundDiv(S * HOURS * 10, n)

\* one DeviceStats: the aggregates of the rows `rows` of one group
DeviceStats(rs, rows, key) ==
    LET n == Cardinality(rows)
        S == SumWatts(rs, rows)
        W == {rs[i].watts : i \in rows}
    IN  [device_id |-> key[1],
         device_name |-> rs[CHOOSE i \in rows : TRUE].device_name,
         location |-> rs[CHOOSE i \in rows : TRUE].location,
         avg_watts |-> RoundDiv(S * 100, n),
         max_watts |-> MaxOf(W) * 100,
         min_watts |-> MinOf(W) * 100,
         daily_kwh |-> DailyKwh(S, n),
         daily_cost_usd |-> RoundDiv(S * HOURS * COST_PER_KWH_CENTS, 10 * n),
         reading_count |-> n,
         last_reading_at |-> MaxTs({rs[i].timestamp : i \in rows})]

get_daily_usage(st, device_id, date_str, clock) ==
    LET date == IF date_str = <<>> THEN strftime(clock) ELSE date_str[1]
        sel == Selected(st.readings, device_id, date)
        keys == GroupKeys(st.readings, sel, Len(st.readings))
    IN  [st  |-> st,
         out |-> [op |-> "get_daily_usage", device_id |-> device_id,
                  date |-> date,
                  results |-> [k \in 1..Len(keys) |->
                      DeviceStats(st.readings,
                          {i \in sel : GroupKey(st.readings[i]) = keys[k]},
                          keys[k])],
                  raised |-> "none"]]

-----------------------------------------------------------------------------
(* The specifications *)

Store == [devices |-> devices, readings |-> readings, alerts |-> alerts,
          journal |-> journal]

\* a call ends: the store it left, what it returned, one tick later
Return(res) ==
    /\ devices' = res.st.devices
    /\ readings' = res.st.readings
    /\ alerts' = res.st.alerts
    /\ journal' = res.st.journal
    /\ last' = res.out
    /\ now' = now + 1
    /\ calls' = calls + 1

DeviceIds == {"a1", "d1"}
SuppliedTimestamps == {NoTimestamp, <<0, 0>>}
DetectorWatts == {-900, 100, 600, 9999}
\* (device_name, location, threshold_watts) of the registrations tried
Registrations == {<<"PC", "default", 0>>, <<"PC", "default", 50>>, <<"Oven", "lab", 50>>}

\* the stores Init starts from: the store add_reading leaves after n calls of
\* w watts for device "a1", from the empty store
Seeds == {<<0, 100>>, <<8, 100>>, <<9, 100>>, <<14, 100>>, <<99, 100>>}

SeedScript(seed) ==
    [k \in 1..seed[1] |-> EnergyReading("a1", "PC", seed[2], NoTimestamp, "default")]

Starts(st, clock) ==
    /\ devices = st.devices
    /\ readings = st.readings
    /\ alerts = st.alerts
    /\ journal = st.journal
    /\ now = clock
    /\ calls = 0
    /\ last = [op |-> "init"]

Init == \E seed \in Seeds : Starts(Replay(EmptyStore, SeedScript(seed), 1, seed[1]), seed[1])

AddDevice ==
    /\ calls < MaxCalls
    /\ \E r \in Registrations :
          Return(add_device(Store, "a1", r[1], r[2], r[3], now))

AddReading ==
    /\ calls < MaxCalls
    /\ \E device_id \in DeviceIds, watts \in DetectorWatts,
          timestamp \in SuppliedTimestamps :
          LET reading == EnergyReading(device_id, "PC", watts, timestamp, "default")
              rs == InsertReading(readings, Timestamped(reading, now))
          IN  \E H \in fetch_history(rs, device_id) :
                  Return(add_reading(Store, reading, H, now))

Next == AddDevice \/ AddReading

Spec == Init /\ [][Next]_vars

UsageInit == Starts(EmptyStore, 0)

UsageAddReading ==
    /\ calls < MaxUsageCalls
    /\ \E device_id \in DeviceIds, watts \in {0, 100},
          timestamp \in {NoTimestamp, <<0, 0>>},
          location \in {"default", "lab"} :
          LET reading == EnergyReading(device_id, "PC", watts, timestamp, location)
              rs == InsertReading(readings, Timestamped(reading, now))
          IN  \E H \in fetch_history(rs, device_id) :
                  Return(add_reading(Store, reading, H, now))

GetDailyUsage ==
    /\ calls < MaxUsageCalls
    /\ \E device_id \in {NoneStr, "", "a1"}, date_str \in {<<>>, <<0>>, <<1>>} :
          Return(get_daily_usage(Store, device_id, date_str, now))

UsageNext == UsageAddReading \/ GetDailyUsage

UsageSpec == UsageInit /\ [][UsageNext]_vars

-----------------------------------------------------------------------------
(* What the claims speak of *)

LastIsReading == last.op = "add_reading"
LastIsUsage == last.op = "get_daily_usage"

\* the device of the last add_reading, and its rows before and after the call
LastDevice == last.reading.device_id
RowsNow == {i \in 1..Len(readings) : readings[i].device_id = LastDevice}
PriorRows == RowsNow \ {last.id}

\* the alerts of type 'anomaly' the last add_reading inserted
InsertedAnomalies ==
    Cardinality({k \in (last.alerts_before + 1)..Len(alerts) :
                    alerts[k].alert_type = "anomaly"})

\* H holds min(100, all) rows of the device and none older is preferred to a
\* newer one
IsLatestWindow(H, rows) ==
    /\ H \subseteq rows
    /\ Cardinality(H) = IF Cardinality(rows) <= HISTORY_LIMIT
                        THEN Cardinality(rows) ELSE HISTORY_LIMIT
    /\ \A j \in rows \ H : \A i \in H :
           ~TsGreater(readings[j].timestamp, readings[i].timestamp)

\* sum over the rows lo..hi in H of (n * watts - S)^2, which is
\* n^2 * (n - 1) * (sample variance) when S is the sum and n the count
RECURSIVE SumSqDev(_, _, _, _, _)
SumSqDev(H, n, S, lo, hi) ==
    IF lo > hi THEN <<>>
    ELSE IF lo = hi
         THEN (IF lo \in H
               THEN LET d == BigOf(Abs(n * readings[lo].watts - S))
                    IN  BigMul(d, d)
               ELSE <<>>)
    ELSE LET mid == (lo + hi) \div 2
         IN  BigAdd(SumSqDev(H, n, S, lo, mid), SumSqDev(H, n, S, mid + 1, hi))

SumOf(H) == SumWatts(readings, H)
SqDevOf(H) == SumSqDev(H, Cardinality(H), SumOf(H), 1, Len(readings))

\* the sample standard deviation of the watts of H is > 0
HasSpread(H) == SqDevOf(H) # <<>>

\* |watts - mean(H)| > 2 * stdev(H), from the definition of the sample
\* standard deviation: (n-1) * (n*w - S)^2 > 4 * sum (n*x - S)^2
BeyondTwoSigma(H, watts) ==
    LET n == Cardinality(H)
        d == BigOf(Abs(n * watts - SumOf(H)))
    IN  BigLess(BigScale(SqDevOf(H), 4), BigScale(BigMul(d, d), n - 1))

\* C1 as stated: the history an add_reading call computes from never holds
\* the row of the new reading itself.
C1_HistoryExcludesNewReading == LastIsReading => last.id \notin last.history

\* C1, amended: the history is read after the INSERT: it is the up to 100
\* rows of latest timestamp among all rows of the device, the new one
\* included, so the new reading is part of its own history whenever the
\* device has at most 100 rows with it.
C1_HistoryReadAfterInsert ==
    LastIsReading =>
        /\ last.id = Len(readings)
        /\ IsLatestWindow(last.history, RowsNow)
        /\ (Cardinality(RowsNow) <= HISTORY_LIMIT => last.id \in last.history)

\* a spike that is flagged against a baseline it is itself part of
C1_Witness ==
    /\ LastIsReading
    /\ last.id \in last.history
    /\ Cardinality(last.history) >= MIN_HISTORY
    /\ InsertedAnomalies = 1

\* C2 as stated: a call for a device with fewer than 10 prior readings never
\* inserts an anomaly alert.
C2_NoAnomalyBelowTenPrior ==
    (LastIsReading /\ Cardinality(PriorRows) < MIN_HISTORY) => InsertedAnomalies = 0

\* C2, amended: a call for a device with fewer than 9 prior readings (0 to 8)
\* never inserts an anomaly alert, whatever the watts.
C2_NoAnomalyBelowNinePrior ==
    (LastIsReading /\ Cardinality(PriorRows) < MIN_HISTORY - 1) => InsertedAnomalies = 0

\* a 9999 W spike after 8 readings of 100 W
C2_Witness ==
    /\ LastIsReading
    /\ Cardinality(PriorRows) = MIN_HISTORY - 2
    /\ \A i \in PriorRows : readings[i].watts = 100
    /\ last.reading.watts = 9999
    /\ InsertedAnomalies = 0

\* C3 as stated: with at least 10 prior readings of spread > 0, exactly one
\* anomaly alert is inserted if the new watts are more than 2 standard
\* deviations from the mean of the (up to 100 latest) prior readings, and
\* none otherwise.
C3_RuleOverPriorReadings ==
    LastIsReading =>
        \E P \in LatestRows(SubSeq(readings, 1, Len(readings) - 1), LastDevice) :
            (Cardinality(P) >= MIN_HISTORY /\ HasSpread(P)) =>
                InsertedAnomalies = IF BeyondTwoSigma(P, last.reading.watts)
                                    THEN 1 ELSE 0

\* C3, amended: the history is the up to 100 latest readings of the device
\* with the new reading among the candidates; when it has at least 10 entries
\* and spread > 0, exactly one anomaly alert is inserted if the new watts are
\* more than 2 standard deviations from its mean, and none otherwise.
C3_RuleOverWindowWithNewReading ==
    LastIsReading =>
        /\ IsLatestWindow(last.history, RowsNow)
        /\ (Cardinality(last.history) >= MIN_HISTORY /\ HasSpread(last.history)) =>
               InsertedAnomalies = IF BeyondTwoSigma(last.history, last.reading.watts)
                                   THEN 1 ELSE 0

\* an anomaly decided on a window that left the oldest row out
C3_Witness ==
    /\ LastIsReading
    /\ Cardinality(RowsNow) > HISTORY_LIMIT
    /\ HasSpread(last.history)
    /\ InsertedAnomalies = 1

\* the store after 15 readings of 100 W and then one of 9999 W for "a1"
SpikeScenario ==
    /\ Len(readings) = 16
    /\ \A i \in 1..16 : readings[i].device_id = "a1"
    /\ \A i \in 1..15 : readings[i].watts = 100
    /\ readings[16].watts = 9999

\* C4 as stated: the scenario leaves exactly one alert, an anomaly, with
\* baseline about 100 and deviation about +9799 %.
C4_SpikeAgainstBaseline100 ==
    SpikeScenario =>
        /\ Len(alerts) = 1
        /\ alerts[1].alert_type = "anomaly"
        /\ Abs(alerts[1].baseline_watts - 10000) <= 100
        /\ Abs(alerts[1].deviation_pct - 979900) <= 100

\* C4, amended: the scenario leaves exactly one alert, an anomaly for the
\* 9999 W reading, with baseline_watts 718.69 (the mean of all 16 readings)
\* and deviation_pct +1291.29.
C4_SpikeAgainstBaseline718 ==
    SpikeScenario =>
        /\ Len(alerts) = 1
        /\ alerts[1].alert_type = "anomaly"
        /\ alerts[1].device_id = "a1"
        /\ alerts[1].watts = 9999
        /\ alerts[1].baseline_watts = 71869
        /\ alerts[1].deviation_pct = 129129

C4_Witness == SpikeScenario /\ LastIsReading /\ last.id = 16

\* the threshold check's condition, on the registry (which add_reading leaves as it is)
OverThreshold ==
    /\ LastDevice \in DOMAIN devices
    /\ devices[LastDevice].threshold_watts > 0
    /\ last.reading.watts > devices[LastDevice].threshold_watts

\* C5: every row of alerts has alert_type 'anomaly'; a reading over its
\* device's threshold prints the warning, and when no anomaly is found for it
\* the alerts table is left as it was.
C5_ThresholdNeverPersists ==
    /\ \A k \in 1..Len(alerts) : alerts[k].alert_type = "anomaly"
    /\ LastIsReading =>
           /\ last.printed_threshold = OverThreshold
           /\ (OverThreshold /\ InsertedAnomalies = 0) => Len(alerts) = last.alerts_before

C5_Witness ==
    /\ LastIsReading
    /\ OverThreshold
    /\ last.printed_threshold
    /\ Len(alerts) = last.alerts_before

\* the alert the last add_reading inserted
LastAlert == alerts[Len(alerts)]

\* n * watts - S and S for the history of the last add_reading: the deviation
\* is 100 * (n * watts - S) / S percent
DevNum == Cardinality(last.history) * last.reading.watts - SumOf(last.history)
DevDen == SumOf(last.history)

\* C6 as stated: an anomaly alert's deviation_pct is 0 when the baseline is
\* <= 0 and is ((watts - baseline) / baseline) * 100 when it is > 0.
C6_DeviationIsThePercentage ==
    (LastIsReading /\ InsertedAnomalies = 1) =>
        IF DevDen <= 0 THEN LastAlert.deviation_pct = 0
        ELSE LET frac == LongDiv(Abs(DevNum) % DevDen, DevDen, 4)
             IN  /\ frac[2] = 0
                 /\ Abs(LastAlert.deviation_pct) =
                        (Abs(DevNum) \div DevDen) * 10000 + frac[1]

\* C6, amended: deviation_pct is 0 when the baseline is <= 0, and when it is
\* > 0 it is ((watts - baseline) / baseline) * 100 rounded to 2 decimal
\* places (the multiple of 0.01 nearest to it, with its sign).
C6_DeviationIsThePercentageRounded ==
    (LastIsReading /\ InsertedAnomalies = 1) =>
        IF DevDen <= 0 THEN LastAlert.deviation_pct = 0
        ELSE LET stored == BigMul(BigOf(Abs(LastAlert.deviation_pct)), BigOf(DevDen))
                 exact == BigScale(BigOf(Abs(DevNum)), 10000)
                 gap == IF BigLess(stored, exact) THEN BigSub(exact, stored)
                        ELSE BigSub(stored, exact)
             IN  /\ ~BigLess(BigOf(DevDen), BigScale(gap, 2))
                 /\ (DevNum < 0 => LastAlert.deviation_pct <= 0)
                 /\ (DevNum > 0 => LastAlert.deviation_pct >= 0)

\* an anomaly against a negative baseline
C6_Witness ==
    /\ LastIsReading
    /\ InsertedAnomalies = 1
    /\ DevDen < 0
    /\ LastAlert.deviation_pct = 0

\* the place of an INSERT in the journal
JournalPlace(table, id) ==
    CHOOSE p \in 1..Len(journal) : journal[p] = <<table, id>>

\* C9: every row of alerts has a device_id of which readings holds a row
\* inserted before the alert was.
C9_AlertHasEarlierReading ==
    \A k \in 1..Len(alerts) :
        \E q \in 1..(JournalPlace("alerts", k) - 1) :
            /\ journal[q][1] = "readings"
            /\ readings[journal[q][2]].device_id = alerts[k].device_id

C9_Witness ==
    /\ Len(alerts) >= 1
    /\ LastIsReading
    /\ InsertedAnomalies = 1
    /\ journal[Len(journal)] = <<"alerts", Len(alerts)>>

\* C10: add_device raises nothing; on a registered device_id it leaves the
\* registry as it was, on an absent one it adds the one row it was given.
C10_AddDeviceKeepsFirstRegistration ==
    last.op = "add_device" =>
        /\ last.raised = "none"
        /\ IF last.device_id \in DOMAIN last.before
           THEN devices = last.before /\ last.printed = "already exists"
           ELSE /\ DOMAIN devices = DOMAIN last.before \cup {last.device_id}
                /\ devices[last.device_id] = last.row
                /\ \A d \in DOMAIN last.before : devices[d] = last.before[d]

\* a second registration with another name, location and threshold
C10_Witness ==
    /\ last.op = "add_device"
    /\ last.device_id \in DOMAIN last.before
    /\ last.row.device_name # last.before[last.device_id].device_name
    /\ last.row.location # last.before[last.device_id].location
    /\ last.row.threshold_watts # last.before[last.device_id].threshold_watts

\* the rows get_daily_usage was to aggregate, and their distinct tuples
DayRows ==
    {i \in 1..Len(readings) :
        /\ readings[i].timestamp[1] = last.date
        /\ (last.device_id \notin {NoneStr, ""} => readings[i].device_id = last.device_id)}
TupleOf(r) == <<r.device_id, r.device_name, r.location>>
DayTuples == {TupleOf(readings[i]) : i \in DayRows}
TupleRows(t) == {i \in DayRows : TupleOf(readings[i]) = t}

C8_OneRowPerTupleOfTheDay ==
    LastIsUsage =>
        /\ Len(last.results) = Cardinality(DayTuples)
        /\ \A t \in DayTuples :
               Cardinality({k \in 1..Len(last.results) : TupleOf(last.results[k]) = t}) = 1
        /\ \A k \in 1..Len(last.results) :
               /\ TupleOf(last.results[k]) \in DayTuples
               /\ last.results[k].reading_count =
                      Cardinality(TupleRows(TupleOf(last.results[k])))
               /\ last.results[k].reading_count >= 1
        /\ (DayRows = {} => last.results = <<>>)

\* two rows for one device read at two locations, and a device with readings
\* on another day only, which gets no row
C8_Witness ==
    /\ LastIsUsage
    /\ \E j, k \in 1..Len(last.results) :
           /\ j # k
           /\ last.results[j].device_id = last.results[k].device_id
    /\ \E i \in 1..Len(readings) :
           \A k \in 1..Len(last.results) :
               last.results[k].device_id # readings[i].device_id

====
